---- MODULE Spec2Model ----
(***************************************************************************)
(* Model of scripts/lifx-lights/evening-lights.py: the Timeline of         *)
(* TimeEvents, the blocking pop, the daily refill from the sunset oracle,  *)
(* the scheduler loop of main() and the save/restore of device states.     *)
(*                                                                         *)
(* Instants are UTC, counted in ticks of a quarter of an hour since an     *)
(* arbitrary midnight UTC.  The local time zone is a fixed offset tz:      *)
(* local = UTC + tz.                                                       *)
(***************************************************************************)
EXTENDS Integers, Sequences, FiniteSets, TLC

\* ------------------------------------------------------------------ bounds
\* the wall clock is followed up to this instant
MaxTime == 330
\* time.sleep may return this many ticks late
MaxOversleep == 1
\* interrupt signals the operator sends in one run
MaxInterrupts == 2
\* devices in the controlled group
NumDevices == 2
\* events a client of the Timeline queues at once
MaxQueue == 3
\* events a client of the Timeline constructs in one run
MaxEvents == 4
\* faults the device library raises in one run
MaxFaults == 1
\* labels given on the command line
MaxLabels == 2

\* ------------------------------------------------------- time arithmetic
\* ticks in timedelta(hours=1)
Hour == 4
\* ticks in timedelta(days=1)
Day == 24 * Hour

\* SUNSET_OFFSET = timedelta(minutes=-30)
SUNSET_OFFSET == -(Hour \div 2)
\* TRANSITION_DURATION = timedelta(minutes=5), in seconds
TRANSITION_DURATION == 300
\* _time(hour=21), as ticks after local midnight
NIGHT_TIME == 21 * Hour
\* timedelta(hours=3)
LIGHTSOFF_DELAY == 3 * Hour
\* _time(hour=18, minute=0, second=0), as ticks after local midnight
DEFAULT_SUNSET_TIME == 18 * Hour

POWER_ON == TRUE
POWER_OFF == FALSE
COLOR_NIGHT_LIGHT == <<8402, 0, 49151, 2000>>
COLOR_NEUTRAL_LIGHT == <<8402, 0, 65535, 3500>>

\* ------------------------------------------------------------ input sets
\* local time zones of the machine (UTC-5, UTC), as ticks east of UTC
TZOffsets == {-5 * Hour, 0}
\* times of day (UTC) at which the oracle places the sunset of a date
SunsetTimes == {21 * Hour, 23 * Hour}
\* instants at which the process is started
StartTimes == {Day + h * Hour + q : h \in {3, 16, 20, 22}, q \in {0, 3}}
\* a colour the lights may show before the run, besides the two presets
COLOR_FOUND == <<0, 65535, 32768, 9000>>
\* states a device may be found in at start-up
FoundStates ==
    { [power |-> p, color |-> c] : p \in {"on", "off"},
                                   c \in {COLOR_NEUTRAL_LIGHT, COLOR_FOUND} }
\* timeout arguments of Timeline.pop: <<>> is None, <<n>> is timedelta of n ticks
None == <<>>
Timeouts == {None, <<0>>, <<1>>, <<3>>}

VARIABLES
    now,        \* wall clock, utc_now()
    tz,         \* the machine's local UTC offset
    timeline,   \* Timeline.timeline
    pc,         \* position of the single flow of control
    sleep,      \* the time.sleep in progress: [until, raises]
    timeout,    \* the timeout argument given to Timeline.pop
    signal,     \* outcome of the latest Timeline.pop call
    event,      \* the event returned by the latest successful pop
    popAt,      \* clock at the latest Timeline.pop call
    popQueue,   \* Timeline.timeline at the latest Timeline.pop call
    devs,       \* power and color of each device
    saved,      \* saved_states of main
    ri,         \* devices reset_device_states has started on (0: not started)
    current,    \* current_state read by reset_device_states
    sent,       \* device commands issued by the latest step
    interrupts, \* interrupt signals delivered so far
    fault,      \* the exception that ended the process, if any
    oracle,     \* latest get_sunset_or_default call: request, response, result
    refill,     \* latest fill_timeline run: sampled now, sunset, events inserted
    made,       \* TimeEvent objects constructed so far
    popped,     \* the events self.timeline.pop(0) returned, oldest first
    fired,      \* the events whose trigger was called, oldest first
    applied,    \* latest LampState.apply call: its arguments, its commands
    faults,     \* exceptions the device library raised in event.trigger
    labels,     \* the labels of sys.argv[1:] not yet looked up
    ctrl_group, \* the devices of ctrl_group, in the order added
    skipped,    \* the device objects found but not added to ctrl_group
    lan         \* the devices on the network: which of them are lights

vars == <<now, tz, timeline, pc, sleep, timeout, signal, event, popAt, popQueue,
          devs, saved, ri, current, sent, interrupts, fault, oracle, refill,
          made, popped, fired, applied, faults, labels, ctrl_group, skipped, lan>>

\* what only the start-up of main changes
startup == <<labels, ctrl_group, skipped, lan>>

Devices == 1 .. NumDevices

\* ------------------------------------------------- dates, times, instants
\* a datetime.date value: the day number of a calendar date
Date(d) == [type |-> "date", day |-> d]
\* datetime.astimezone().date(): the local calendar date of a UTC instant
LocalDate(t) == Date((t + tz) \div Day)
\* datetime.astimezone().date without the call: the bound method, not a date
LocalDateMethod(t) == [type |-> "method", day |-> (t + tz) \div Day]
\* date.strftime("%Y-%m-%d") of an aware UTC datetime: its UTC calendar date
UtcDay(t) == t \div Day

\* what a call gives back: a value, or an exception raised to the caller
Returns(v) == [exc |-> "none", value |-> v]
Raises(e) == [exc |-> e, value |-> 0]

\* utc_datetime(date, time): local date and local time of day to a UTC instant;
\* datetime.combine raises TypeError when its first argument is not a date
utc_datetime(date, time) ==
    IF date.type = "date"
    THEN Returns(date.day * Day + time - tz)
    ELSE Raises("TypeError")

\* ------------------------------------------------------------ sleep_until
\* truth value of the timeout argument: None and timedelta(0) are false
Truthy(t) == t # None /\ t[1] # 0

\* sleep_until(then, timeout) called at clock: how long it sleeps and whether
\* it then raises TimeoutError
sleep_until(then, t, clock) ==
    LET wait_time == then - clock IN
    IF Truthy(t) /\ t[1] < wait_time
    THEN [sleep |-> t[1], raises |-> TRUE]
    ELSE IF wait_time > 0
         THEN [sleep |-> wait_time, raises |-> FALSE]
         ELSE [sleep |-> 0, raises |-> FALSE]

\* ------------------------------------------------- LampState and TimeEvent
LampState(name, power, color) == [name |-> name, power |-> power, color |-> color]
\* serial stands for the identity of the object: 0 until it is numbered
TimeEvent(name, time_utc, state, fade) ==
    [name |-> name, time |-> time_utc, state |-> state, fade |-> fade, serial |-> 0]
\* the n-th TimeEvent object constructed in the run
Numbered(ev, n) == [ev EXCEPT !.serial = n]

\* TimeEvent.__lt__
TimeEvent_lt(a, b) == a.time < b.time

\* ---------------------------------------------------------------- Timeline
\* a step that puts e before the first element that is not less than e
RECURSIVE Place_before(_, _)
Place_before(s, e) ==
    IF s = <<>> THEN <<e>>
    ELSE IF ~TimeEvent_lt(Head(s), e) THEN <<e>> \o s
    ELSE <<Head(s)>> \o Place_before(Tail(s), e)

\* one step of list.sort: e goes before the first element it is less than
RECURSIVE Place(_, _)
Place(s, e) ==
    IF s = <<>> THEN <<e>>
    ELSE IF TimeEvent_lt(e, Head(s)) THEN <<e>> \o s
    ELSE <<Head(s)>> \o Place(Tail(s), e)

\* list.sort(): a stable sort by __lt__
RECURSIVE ListSort(_)
ListSort(s) ==
    IF s = <<>> THEN <<>>
    ELSE Place(ListSort(SubSeq(s, 1, Len(s) - 1)), s[Len(s)])

\* Timeline.insert with the sort left out
Timeline_insert_unsorted(tl, ev) == Append(tl, ev)

\* Timeline.insert: append, then sort
Timeline_insert(tl, ev) == ListSort(Append(tl, ev))

\* Timeline.pop up to its sleep: IndexError on an empty list, else the plan of
\* sleep_until for the head's time
Timeline_pop(tl, t, clock) ==
    IF tl = <<>>
    THEN [kind |-> "IndexError", until |-> 0, raises |-> FALSE]
    ELSE LET plan == sleep_until(tl[1].time, t, clock) IN
         IF plan.sleep > 0
         THEN [kind |-> "sleep", until |-> clock + plan.sleep, raises |-> plan.raises]
         ELSE [kind |-> "event", until |-> 0, raises |-> FALSE]

\* self.timeline.pop(): the last element instead of the first
PopBack(tl) == [ev |-> tl[Len(tl)], rest |-> SubSeq(tl, 1, Len(tl) - 1)]

\* list.pop(0) that returns the first element and leaves the list as it was
PopFront_keep(tl) == [ev |-> Head(tl), rest |-> tl]

\* self.timeline.pop(0): the event returned and the list left
PopFront(tl) == [ev |-> Head(tl), rest |-> Tail(tl)]

\* ------------------------------------------------------------ sunset oracle
\* request_sunrise_sunset for the UTC date of an instant: <<>> when the
\* request raises, else <<sunset>>, a sunset of the requested date
OracleResponses(date) == {<<>>} \cup { <<UtcDay(date) * Day + s>> : s \in SunsetTimes }

\* get_sunset_or_default(lat, lng, date), the request having answered resp
get_sunset_or_default(date, resp) ==
    IF resp # <<>>
    THEN Returns(resp[1])
    ELSE LET local_date == LocalDateMethod(date)
             local_time == DEFAULT_SUNSET_TIME
         IN  utc_datetime(local_date, local_time)

\* next_sunset without the test that today's sunset has not passed
next_sunset_today(clock, r1, r2) == get_sunset_or_default(clock, r1)

\* next_sunset(lat, lng), utc_now() giving clock and the requests answering
\* r1 (today) and r2 (tomorrow, asked only when today's sunset has passed)
next_sunset(clock, r1, r2) ==
    LET sunset == get_sunset_or_default(clock, r1) IN
    IF sunset.exc # "none" THEN sunset
    ELSE IF sunset.value > clock THEN sunset
    ELSE get_sunset_or_default(clock + Day, r2)

\* whether next_sunset makes its second request
AsksTomorrow(clock, r1) ==
    LET sunset == get_sunset_or_default(clock, r1) IN
    sunset.exc = "none" /\ ~(sunset.value > clock)

\* ----------------------------------------------------------- fill_timeline
state_evening == LampState("Evening Lights", POWER_ON, COLOR_NEUTRAL_LIGHT)
state_night == LampState("Night Lights", POWER_ON, COLOR_NIGHT_LIGHT)
state_off == LampState("Lights Off", POWER_OFF, COLOR_NIGHT_LIGHT)

\* the three events fill_timeline builds from a sunset, in insertion order,
\* n events having been constructed before
DayEvents(sunset, n) ==
    LET local_date == LocalDate(sunset)
        fade == TRANSITION_DURATION
        evening == sunset + SUNSET_OFFSET
        nighttime == utc_datetime(local_date, NIGHT_TIME).value
        lightsoff == nighttime + LIGHTSOFF_DELAY
    IN  << Numbered(TimeEvent("Evening", evening, state_evening, fade), n + 1),
           Numbered(TimeEvent("Nightime", nighttime, state_night, fade), n + 2),
           Numbered(TimeEvent("Lights Off", lightsoff, state_off, fade), n + 3) >>

\* fill_timeline(timeline): the exception it raises if any, the timeline it
\* leaves, the sunset it used and the events it inserted
fill_timeline(tl, clock, r1, r2, n) ==
    LET sunset == next_sunset(clock, r1, r2) IN
    IF sunset.exc # "none"
    THEN [exc |-> sunset.exc, timeline |-> tl, sunset |-> 0, batch |-> <<>>]
    ELSE LET evs == DayEvents(sunset.value, n) IN
         [exc |-> "none",
          timeline |-> Timeline_insert(Timeline_insert(Timeline_insert(tl, evs[1]), evs[2]), evs[3]),
          sunset |-> sunset.value,
          batch |-> evs]

\* ---------------------------------------------------------- device commands
\* lights.set_power / dev.set_power and lights.set_color / dev.set_color;
\* to is "group" or a device, duration in milliseconds
SetPower(to, power, duration_ms) ==
    [op |-> "set_power", to |-> to, power |-> power, color |-> <<>>, duration |-> duration_ms]
SetColor(to, color, duration_ms) ==
    [op |-> "set_color", to |-> to, power |-> "-", color |-> color, duration |-> duration_ms]

\* a device after a command addressed to it or to the group
DeviceAfter(d, st, cmd) ==
    IF cmd.to # <<"group">> /\ cmd.to # <<"device", d>> THEN st
    ELSE IF cmd.op = "set_power" THEN [st EXCEPT !.power = cmd.power]
    ELSE [st EXCEPT !.color = cmd.color]

\* the devices after a sequence of commands, each taking effect as it is sent
RECURSIVE DevicesAfter(_, _)
DevicesAfter(ds, cmds) ==
    IF cmds = <<>> THEN ds
    ELSE DevicesAfter([d \in DOMAIN ds |-> DeviceAfter(d, ds[d], Head(cmds))], Tail(cmds))

\* LampState.apply: duration_ms, the command sent before the settle delay and
\* the command sent after it
duration_ms(fade) == 1000 * fade
\* apply sending the colour first whatever the target power
ApplyFirst_color(st, fade) == SetColor(<<"group">>, st.color, duration_ms(fade))
ApplyFirst(st, fade) ==
    IF st.power THEN SetPower(<<"group">>, "on", duration_ms(fade))
    ELSE SetColor(<<"group">>, st.color, duration_ms(fade))
ApplySecond(st, fade) ==
    IF st.power THEN SetColor(<<"group">>, st.color, duration_ms(fade))
    ELSE SetPower(<<"group">>, "off", duration_ms(fade))

\* ------------------------------------------------------------ save / restore
\* save_current_states: (mac address, power, color) of every device, in order
save_current_states(devices, ds) ==
    [i \in DOMAIN ds |-> <<devices[i].mac, ds[i].power, ds[i].color>>]

\* reset_device_states without the comparisons: both commands always sent
ResetCommands_always(i, current_state, saved_state) ==
    <<SetPower(<<"device", i>>, saved_state[2], 0),
      SetColor(<<"device", i>>, saved_state[3], 0)>>

\* reset_device_states that restores the power and leaves the colour
ResetCommands_power(i, current_state, saved_state) ==
    IF current_state[2] # saved_state[2]
    THEN <<SetPower(<<"device", i>>, saved_state[2], 0)>> ELSE <<>>

\* reset_device_states, one device: the commands sent for device i, whose
\* state was read as current_state, to bring it back to saved_state
ResetCommands(i, current_state, saved_state) ==
    (IF current_state[2] # saved_state[2]
     THEN <<SetPower(<<"device", i>>, saved_state[2], 0)>> ELSE <<>>)
    \o
    (IF current_state[3] # saved_state[3]
     THEN <<SetColor(<<"device", i>>, saved_state[3], 0)>> ELSE <<>>)

\* ------------------------------------------------------------------- state
NoSleep == [until |-> 0, raises |-> FALSE]
NoEvent == TimeEvent("none", 0, LampState("none", FALSE, <<>>), 0)
NoCall == [asked |-> FALSE, date |-> 0, resp |-> <<>>, result |-> Returns(0)]
NoRefill == [ran |-> FALSE, at |-> 0, exc |-> "none", sunset |-> 0, batch |-> <<>>,
             first |-> <<>>, queries |-> 0]
NoApply == [state |-> LampState("none", FALSE, <<>>), fade |-> 0, cmds |-> <<>>,
            done |-> FALSE]

\* a device object the discovery returned: its hardware address, and the
\* lookup that made the object (0: before the run of the model starts)
Handle(mac, lookup) == [mac |-> mac, lookup |-> lookup]

\* the loop variables before anything has run
LoopAtRest ==
    /\ timeline = <<>>
    /\ sleep = NoSleep
    /\ signal = "none"
    /\ event = NoEvent
    /\ popAt = 0
    /\ popQueue = <<>>
    /\ ri = 0
    /\ current = <<>>
    /\ sent = <<>>
    /\ interrupts = 0
    /\ fault = "none"
    /\ oracle = NoCall
    /\ refill = NoRefill
    /\ made = 0
    /\ popped = <<>>
    /\ fired = <<>>
    /\ applied = NoApply
    /\ faults = <<>>

\* main() as it enters its loop: devices found, their states saved, the
\* timeline empty; pop is called with the given timeout
Start(t) ==
    /\ now \in StartTimes
    /\ tz \in TZOffsets
    /\ pc = "pop"
    /\ timeout = t
    /\ labels = <<>>
    /\ lan = [d \in Devices |-> TRUE]
    /\ ctrl_group = [d \in Devices |-> Handle(d, 0)]
    /\ skipped = <<>>
    /\ devs \in [Devices -> FoundStates]
    /\ saved = save_current_states(ctrl_group, devs)
    /\ LoopAtRest

\* the script as written: timeline.pop(timeout=None)
Init == Start(None)

\* ------------------------------------------------------------- main's loop
\* event = timeline.pop(timeout): IndexError goes to the refill, a due head is
\* returned at once, otherwise the flow blocks in time.sleep
MainPop ==
    /\ pc = "pop"
    /\ LET r == Timeline_pop(timeline, timeout, now) IN
       /\ popAt' = now
       /\ popQueue' = timeline
       /\ CASE r.kind = "IndexError" ->
                 /\ signal' = "IndexError"
                 /\ pc' = "refill"
                 /\ UNCHANGED <<timeline, event, sleep, popped>>
            [] r.kind = "sleep" ->
                 /\ signal' = "none"
                 /\ pc' = "sleeping"
                 /\ sleep' = [until |-> r.until, raises |-> r.raises]
                 /\ UNCHANGED <<timeline, event, popped>>
            [] r.kind = "event" ->
                 /\ signal' = "event"
                 /\ event' = PopFront(timeline).ev
                 /\ timeline' = PopFront(timeline).rest
                 /\ popped' = Append(popped, event')
                 /\ pc' = "trigger"
                 /\ UNCHANGED sleep
    /\ sent' = <<>>
    /\ UNCHANGED <<now, tz, timeout, devs, saved, ri, current, interrupts, fault,
                   oracle, refill, made, fired, applied, faults, startup>>

\* time.sleep returns, on time or late: TimeoutError is caught and passed, or
\* the head is popped and about to be triggered
MainWake ==
    /\ pc = "sleeping"
    /\ \E late \in 0 .. MaxOversleep :
          /\ sleep.until + late <= MaxTime
          /\ now' = sleep.until + late
    /\ IF sleep.raises
       THEN /\ signal' = "TimeoutError"
            /\ pc' = "pop"
            /\ UNCHANGED <<timeline, event, popped>>
       ELSE /\ signal' = "event"
            /\ event' = PopFront(timeline).ev
            /\ timeline' = PopFront(timeline).rest
            /\ popped' = Append(popped, event')
            /\ pc' = "trigger"
    /\ sleep' = NoSleep
    /\ sent' = <<>>
    /\ UNCHANGED <<tz, timeout, popAt, popQueue, devs, saved, ri, current,
                   interrupts, fault, oracle, refill, made, fired, applied, faults,
                   startup>>

\* event.trigger(ctrl_group): the first command of LampState.apply
TriggerFirst ==
    /\ pc = "trigger"
    /\ sent' = <<ApplyFirst(event.state, event.fade)>>
    /\ devs' = DevicesAfter(devs, sent')
    /\ fired' = Append(fired, event)
    /\ applied' = [state |-> event.state, fade |-> event.fade, cmds |-> sent',
                   done |-> FALSE]
    /\ pc' = "settle"
    /\ UNCHANGED <<now, tz, timeline, sleep, timeout, signal, event, popAt, popQueue,
                   saved, ri, current, interrupts, fault, oracle, refill, made,
                   popped, faults, startup>>

\* after the settle delay, the second command of LampState.apply
TriggerSecond ==
    /\ pc = "settle"
    /\ sent' = <<ApplySecond(event.state, event.fade)>>
    /\ devs' = DevicesAfter(devs, sent')
    /\ applied' = [applied EXCEPT !.cmds = applied.cmds \o sent', !.done = TRUE]
    /\ pc' = "pop"
    /\ UNCHANGED <<now, tz, timeline, sleep, timeout, signal, event, popAt, popQueue,
                   saved, ri, current, interrupts, fault, oracle, refill, made,
                   popped, fired, faults, startup>>

\* exception classes the device library may raise from set_power / set_color
FaultKinds == {"WorkflowException", "IndexError", "TimeoutError"}

\* event.trigger(ctrl_group) raises, at its first or at its second command:
\* the command has no effect; the except clauses of the try statement take an
\* IndexError for the empty timeline and a TimeoutError for pop's timeout,
\* any other exception leaves main and ends the process
Fault ==
    /\ pc \in {"trigger", "settle"}
    /\ Len(faults) < MaxFaults
    /\ \E e \in FaultKinds :
          /\ faults' = Append(faults, e)
          /\ CASE e = "IndexError" -> pc' = "refill" /\ fault' = fault
               [] e = "TimeoutError" -> pc' = "pop" /\ fault' = fault
               [] OTHER -> pc' = "crashed" /\ fault' = e
    /\ IF pc = "trigger"
       THEN /\ fired' = Append(fired, event)
            /\ applied' = [state |-> event.state, fade |-> event.fade, cmds |-> <<>>,
                           done |-> FALSE]
       ELSE UNCHANGED <<fired, applied>>
    /\ sent' = <<>>
    /\ UNCHANGED <<now, tz, timeline, sleep, timeout, signal, event, popAt, popQueue,
                   devs, saved, ri, current, interrupts, oracle, refill, made,
                   popped, startup>>

\* except IndexError: fill_timeline(timeline); an exception raised in this
\* handler is caught by no clause of the try statement and ends the process
Refill ==
    /\ pc = "refill"
    /\ \E r1 \in OracleResponses(now) :
       \E r2 \in (IF AsksTomorrow(now, r1) THEN OracleResponses(now + Day) ELSE {<<>>}) :
          LET f == fill_timeline(timeline, now, r1, r2, made) IN
          /\ timeline' = f.timeline
          /\ made' = made + Len(f.batch)
          /\ refill' = [ran |-> TRUE, at |-> now, exc |-> f.exc,
                        sunset |-> f.sunset, batch |-> f.batch,
                        first |-> r1,
                        queries |-> IF AsksTomorrow(now, r1) THEN 2 ELSE 1]
          /\ oracle' = IF AsksTomorrow(now, r1)
                       THEN [asked |-> TRUE, date |-> now + Day, resp |-> r2,
                             result |-> get_sunset_or_default(now + Day, r2)]
                       ELSE [asked |-> TRUE, date |-> now, resp |-> r1,
                             result |-> get_sunset_or_default(now, r1)]
          /\ IF f.exc = "none"
             THEN pc' = "pop" /\ fault' = fault
             ELSE pc' = "crashed" /\ fault' = f.exc
    /\ sent' = <<>>
    /\ UNCHANGED <<now, tz, sleep, timeout, signal, event, popAt, popQueue, devs,
                   saved, ri, current, interrupts, popped, fired, applied, faults,
                   startup>>

\* the operator's interrupt: KeyboardInterrupt is raised where the flow is.
\* In the try body it is caught and the restore starts; in an except handler
\* (the refill, the restore itself) nothing catches it and the process ends
Interrupt ==
    /\ pc \in {"pop", "sleeping", "trigger", "settle", "refill", "restore"}
    /\ interrupts < MaxInterrupts
    /\ interrupts' = interrupts + 1
    /\ IF pc \in {"refill", "restore"}
       THEN /\ pc' = "crashed"
            /\ fault' = "KeyboardInterrupt"
            /\ ri' = ri
       ELSE /\ pc' = "restore"
            /\ ri' = 1
            /\ fault' = fault
    /\ sleep' = NoSleep
    /\ sent' = <<>>
    /\ UNCHANGED <<now, tz, timeline, timeout, signal, event, popAt, popQueue, devs,
                   saved, current, oracle, refill, made, popped, fired, applied,
                   faults, startup>>

\* reset_device_states, one turn of its loop: read the device, compare with
\* what was saved, send what differs
RestoreDevice ==
    /\ pc = "restore"
    /\ ri <= Len(ctrl_group)
    /\ current' = <<ctrl_group[ri].mac, devs[ri].power, devs[ri].color>>
    /\ sent' = ResetCommands(ri, current', saved[ri])
    /\ devs' = DevicesAfter(devs, sent')
    /\ ri' = ri + 1
    /\ UNCHANGED <<now, tz, timeline, pc, sleep, timeout, signal, event, popAt,
                   popQueue, saved, interrupts, fault, oracle, refill, made, popped,
                   fired, applied, faults, startup>>

\* reset_device_states returns; break; main returns and the process exits
RestoreDone ==
    /\ pc = "restore"
    /\ ri > Len(ctrl_group)
    /\ pc' = "exited"
    /\ sent' = <<>>
    /\ UNCHANGED <<now, tz, timeline, sleep, timeout, signal, event, popAt, popQueue,
                   devs, saved, ri, current, interrupts, fault, oracle, refill, made,
                   popped, fired, applied, faults, startup>>

Next ==
    \/ MainPop
    \/ MainWake
    \/ TriggerFirst
    \/ TriggerSecond
    \/ Refill
    \/ Interrupt
    \/ RestoreDevice
    \/ RestoreDone

Spec == Init /\ [][Next]_vars

\* the loop left alone: no Ctrl-C, the device library never raising. The
\* flow of control is a single thread that the interpreter keeps running:
\* every call returns and every sleep ends, so a step that can be taken is
\* taken
NextLive ==
    \/ MainPop
    \/ MainWake
    \/ TriggerFirst
    \/ TriggerSecond
    \/ Refill

SpecLive == Init /\ [][NextLive]_vars /\ WF_vars(NextLive)

\* ------------------------------------------------- the program from its start
\* the labels the network answers to: the name of a device, the name of the
\* one group, a name nothing on the network carries
Label(kind, id) == [kind |-> kind, id |-> id]
LabelNames == {Label("lamp", d) : d \in Devices} \cup {Label("room", 0), Label("none", 0)}
\* the devices of the group "room": every device but the first
Room == {d \in Devices : d > 1}
\* argv[1:], at least one label
ArgvLists == UNION {[1 .. n -> LabelNames] : n \in 1 .. MaxLabels}
\* the instant at which the whole program is started, and the state in
\* which it finds the devices it reads
ProgramStart == 2 * Day + 20 * Hour
ProgramFound == [power |-> "off", color |-> COLOR_FOUND]

\* lifx.get_devices_by_group(label).get_device_list(): fresh device objects
\* of lookup k, in the order of discovery
get_devices_by_group(label, k) ==
    LET found[d \in 0 .. NumDevices] ==
            IF d = 0 THEN <<>>
            ELSE IF label.kind = "room" /\ d \in Room
                 THEN Append(found[d - 1], Handle(d, k))
                 ELSE found[d - 1]
    IN found[NumDevices]

\* lifx.get_device_by_name(label): the device object, or None
get_device_by_name(label, k) ==
    IF label.kind = "lamp" THEN <<Handle(label.id, k)>> ELSE None

\* already_in_group comparing the device objects instead of their addresses
already_in_group_object(device, group) ==
    device \in {group[i] : i \in DOMAIN group}

already_in_group(device, group) ==
    LET group_addresses == {group[i].mac : i \in DOMAIN group}
    IN device.mac \in group_addresses

\* for dev in devices: if not already_in_group(dev, ctrl_group): add_device
RECURSIVE AddDevices(_, _)
AddDevices(group, devices) ==
    IF devices = <<>> THEN group
    ELSE AddDevices(IF already_in_group(Head(devices), group) THEN group
                    ELSE Append(group, Head(devices)),
                    Tail(devices))

\* the start-up test that forgets to look for lights
StartupFails_anyDevice(devices, lights) == Len(devices) = 0

\* the two tests after the labels loop; either one ends in exit(1)
StartupFails(devices, lights) == Len(devices) = 0 \/ Len(lights) = 0

\* the interpreter has entered main() with argv[1:] = labels
InitProgram ==
    /\ now = ProgramStart
    /\ tz = 0
    /\ pc = "labels"
    /\ timeout = None
    /\ labels \in ArgvLists
    /\ lan \in [Devices -> BOOLEAN]
    /\ ctrl_group = <<>>
    /\ skipped = <<>>
    /\ devs = <<>>
    /\ saved = <<>>
    /\ LoopAtRest

\* one turn of the loop over the labels
Lookup ==
    /\ pc = "labels"
    /\ labels # <<>>
    /\ LET label == Head(labels)
           k == Len(labels)
           devices == get_devices_by_group(label, k)
           dev == get_device_by_name(label, k)
           matches == IF Len(devices) > 0 THEN devices ELSE dev
       IN /\ ctrl_group' = AddDevices(ctrl_group, matches)
          /\ skipped' = skipped \o
                SelectSeq(matches, LAMBDA h : h \notin {ctrl_group'[i] : i \in DOMAIN ctrl_group'})
    /\ labels' = Tail(labels)
    /\ UNCHANGED <<now, tz, timeline, pc, sleep, timeout, signal, event, popAt,
                   popQueue, devs, saved, ri, current, sent, interrupts, fault,
                   oracle, refill, made, popped, fired, applied, faults, lan>>

\* after the labels loop: exit(1) without devices or without lights,
\* otherwise read and save the state of every device and enter the loop
Check ==
    /\ pc = "labels"
    /\ labels = <<>>
    /\ LET devices == ctrl_group
           lights == SelectSeq(devices, LAMBDA h : lan[h.mac])
       IN IF StartupFails(devices, lights)
          THEN /\ pc' = "exit1"
               /\ UNCHANGED <<devs, saved>>
          ELSE /\ devs' = [i \in DOMAIN devices |-> ProgramFound]
               /\ saved' = save_current_states(devices, devs')
               /\ pc' = "pop"
    /\ UNCHANGED <<now, tz, timeline, sleep, timeout, signal, event, popAt, popQueue,
                   ri, current, sent, interrupts, fault, oracle, refill, made,
                   popped, fired, applied, faults, startup>>

NextProgram ==
    \/ Lookup
    \/ Check
    \/ Fault
    \/ Next

SpecProgram == InitProgram /\ [][NextProgram]_vars

\* the loop with a timeout given to pop, the hook of lines 282-285
HookTimeouts == {<<0>>, <<8 * Hour>>}
InitHook == \E t \in HookTimeouts : Start(t)
SpecHook == InitHook /\ [][Next]_vars

\* ---------------------------------------------- the Timeline under any client
\* events a client inserts: two names at each of a few instants around the
\* client's start, so that ties and events already due both occur
EventTimes == {Day - 1, Day + 1, Day + 2, Day + 4}
ClientEvents ==
    { TimeEvent(n, t, state_evening, TRANSITION_DURATION) : n \in {"a", "b"}, t \in EventTimes }

\* a fresh Timeline() and a client about to call it
InitTimeline ==
    /\ now = Day
    /\ tz = 0
    /\ pc = "idle"
    /\ timeout = None
    /\ labels = <<>>
    /\ lan = [d \in Devices |-> TRUE]
    /\ ctrl_group = [d \in Devices |-> Handle(d, 0)]
    /\ skipped = <<>>
    /\ devs = [d \in Devices |-> [power |-> "off", color |-> COLOR_FOUND]]
    /\ saved = save_current_states(ctrl_group, devs)
    /\ LoopAtRest

\* timeline.insert(ev)
ClientInsert ==
    /\ pc = "idle"
    /\ Len(timeline) < MaxQueue
    /\ made < MaxEvents
    /\ made' = made + 1
    /\ \E ev \in ClientEvents : timeline' = Timeline_insert(timeline, Numbered(ev, made'))
    /\ signal' = "none"
    /\ event' = NoEvent
    /\ popAt' = 0
    /\ popQueue' = <<>>
    /\ timeout' = None
    /\ UNCHANGED <<now, tz, pc, sleep, devs, saved, ri, current, sent, interrupts,
                   fault, oracle, refill, popped, fired, applied, faults, startup>>

\* timeline.pop(timeout), up to its return or its sleep
ClientPop ==
    /\ pc = "idle"
    /\ \E t \in Timeouts :
          LET r == Timeline_pop(timeline, t, now) IN
          /\ timeout' = t
          /\ popAt' = now
          /\ popQueue' = timeline
          /\ CASE r.kind = "IndexError" ->
                    /\ signal' = "IndexError"
                    /\ event' = NoEvent
                    /\ UNCHANGED <<timeline, pc, sleep>>
               [] r.kind = "sleep" ->
                    /\ signal' = "none"
                    /\ event' = NoEvent
                    /\ pc' = "sleeping"
                    /\ sleep' = [until |-> r.until, raises |-> r.raises]
                    /\ UNCHANGED timeline
               [] r.kind = "event" ->
                    /\ signal' = "event"
                    /\ event' = PopFront(timeline).ev
                    /\ timeline' = PopFront(timeline).rest
                    /\ UNCHANGED <<pc, sleep>>
    /\ UNCHANGED <<now, tz, devs, saved, ri, current, sent, interrupts, fault,
                   oracle, refill, made, popped, fired, applied, faults, startup>>

\* time.sleep returns to sleep_until: TimeoutError, or the head is popped
ClientWake ==
    /\ pc = "sleeping"
    /\ \E late \in 0 .. MaxOversleep :
          /\ sleep.until + late <= MaxTime
          /\ now' = sleep.until + late
    /\ IF sleep.raises
       THEN /\ signal' = "TimeoutError"
            /\ UNCHANGED <<timeline, event>>
       ELSE /\ signal' = "event"
            /\ event' = PopFront(timeline).ev
            /\ timeline' = PopFront(timeline).rest
    /\ pc' = "idle"
    /\ sleep' = NoSleep
    /\ UNCHANGED <<tz, timeout, popAt, popQueue, devs, saved, ri, current, sent,
                   interrupts, fault, oracle, refill, made, popped, fired, applied,
                   faults, startup>>

NextTimeline == ClientInsert \/ ClientPop \/ ClientWake

SpecTimeline == InitTimeline /\ [][NextTimeline]_vars

\* ====================================================================
\* Properties
\* ====================================================================
Terminated == pc \in {"exited", "crashed"}

\* the list s without its k-th element
Without(s, k) == SubSeq(s, 1, k - 1) \o SubSeq(s, k + 1, Len(s))

\* C1: a successful Timeline.pop removes and returns an event whose time is
\* the minimum over the events queued when it was called, and it returns at a
\* clock instant not earlier than that event's time; when the event's time had
\* already passed at the call, it returns without sleeping.
PopReturnsEarliestWhenDue ==
    signal = "event" =>
        /\ \E k \in DOMAIN popQueue :
              popQueue[k] = event /\ timeline = Without(popQueue, k)
        /\ \A k \in DOMAIN popQueue : event.time <= popQueue[k].time
        /\ now >= event.time
        /\ (event.time <= popAt => now = popAt)

\* C1 witness: a pop that slept for its event while a later event stayed queued
PopSleptForEarliest ==
    /\ signal = "event"
    /\ pc = "idle"
    /\ popAt < event.time
    /\ Len(popQueue) >= 2
    /\ \E k \in DOMAIN popQueue : event.time < popQueue[k].time

\* C2: an interrupt delivered in any loop state leads to the restore; no run
\* is ended by the interrupt without the restore having been started.
InterruptStartsRestore ==
    (pc = "crashed" /\ fault = "KeyboardInterrupt") => ri > 0

\* C3: when the request fails, get_sunset_or_default raises nothing and
\* returns 18:00 local time on the requested date, as a UTC instant.
SunsetFallbackReturned ==
    (oracle.asked /\ oracle.resp = <<>>) =>
        /\ oracle.result.exc = "none"
        /\ oracle.result.value =
              LocalDate(oracle.date).day * Day + DEFAULT_SUNSET_TIME - tz

\* C4: a refill for which the oracle returned a sunset inserts exactly three
\* events, Evening at sunset + offset, Nighttime at 21:00 local on the
\* sunset's local date, LightsOff three hours later, with
\* Evening.time < Nighttime.time < LightsOff.time.
RefillThreeOrdered ==
    (refill.ran /\ refill.exc = "none") =>
        LET b == refill.batch IN
        /\ Len(b) = 3
        /\ b[1].name = "Evening" /\ b[2].name = "Nightime" /\ b[3].name = "Lights Off"
        /\ b[1].time = refill.sunset + SUNSET_OFFSET
        /\ b[2].time = LocalDate(refill.sunset).day * Day + NIGHT_TIME - tz
        /\ b[3].time = b[2].time + LIGHTSOFF_DELAY
        /\ b[1].time < b[2].time
        /\ b[2].time < b[3].time

\* C5 as stated: every event a refill inserts is later than the now at
\* which the refill ran.
RefillForwardLooking ==
    \A i \in DOMAIN refill.batch : refill.batch[i].time > refill.at

\* C5 as amended: the sunset a refill uses is later than the now it sampled,
\* so the Evening event is later than now + SUNSET_OFFSET and the LightsOff
\* event is later than now.
RefillAnchorAhead ==
    refill.batch # <<>> =>
        /\ refill.sunset > refill.at
        /\ refill.batch[1].time > refill.at + SUNSET_OFFSET
        /\ refill.batch[3].time > refill.at

\* C5 witness: a refill run less than half an hour before the sunset it
\* uses, so that the Evening event it inserts is already past
RefillWithEveningPast ==
    /\ refill.batch # <<>>
    /\ refill.sunset > refill.at
    /\ refill.batch[1].time < refill.at

\* C6: for each device the restore sends a set-power command exactly when the
\* power it read differs from the saved power and a set-color command exactly
\* when the color it read differs from the saved color, each to that device
\* and carrying the saved value, and nothing else.
RestoreSendsOnlyDifferences ==
    (pc = "restore" /\ ri > 1) =>
        LET i == ri - 1
            powers == { k \in DOMAIN sent : sent[k].op = "set_power" }
            colors == { k \in DOMAIN sent : sent[k].op = "set_color" }
        IN  /\ current[1] = i
            /\ Cardinality(powers) = (IF current[2] # saved[i][2] THEN 1 ELSE 0)
            /\ Cardinality(colors) = (IF current[3] # saved[i][3] THEN 1 ELSE 0)
            /\ Len(sent) = Cardinality(powers) + Cardinality(colors)
            /\ \A k \in DOMAIN sent : sent[k].to = <<"device", i>>
            /\ \A k \in powers : sent[k].power = saved[i][2]
            /\ \A k \in colors : sent[k].color = saved[i][3]

\* C6 witness: behind an event that was triggered, the restore found one
\* device with only its power changed and sent that single command
RestoredPowerOnly ==
    /\ pc = "restore"
    /\ ri > 1
    /\ signal = "event"
    /\ current[2] # saved[ri - 1][2]
    /\ current[3] = saved[ri - 1][3]
    /\ Len(sent) = 1

\* C7: the Timeline's list is in ascending order of event time.
Sorted(s) == \A i \in 1 .. Len(s) - 1 : s[i].time <= s[i + 1].time
TimelineSorted == Sorted(timeline)

\* C7 witness: three events at three instants queued after a pop
TimelineHoldsThree ==
    /\ Len(timeline) >= 3
    /\ timeline[1].time < timeline[2].time
    /\ timeline[2].time < timeline[3].time
    /\ now > Day

\* C8: when pop is called with a timeout shorter than the remaining wait for
\* the head event, zero included, it raises the timeout signal, removes no
\* event, and the loop is back at the pop.
TimeoutRemovesNothing ==
    ( /\ timeout # None
      /\ ri = 0
      /\ signal \in {"event", "TimeoutError"}
      /\ popQueue # <<>>
      /\ timeout[1] < popQueue[1].time - popAt )
    => /\ signal = "TimeoutError"
       /\ timeline = popQueue
       /\ pc = "pop"

\* C9: pop on an empty Timeline raises the empty-queue signal at once, the
\* Timeline unchanged and no time slept; the loop then runs the refill and
\* returns to the pop.
EmptyPopRefills ==
    (signal = "IndexError" /\ interrupts = 0) =>
        /\ popQueue = <<>>
        /\ now = popAt
        /\ pc \in {"refill", "pop"}
        /\ (pc = "refill" => timeline = <<>>)
        /\ (pc = "pop" => refill.ran /\ refill.at = popAt)

\* C10: once the restore has started, the process does not end before every
\* device has been processed; from then on only restore commands are sent
\* and no event is triggered.
RestoreRunsToCompletion ==
    ri > 0 =>
        /\ (Terminated => ri = NumDevices + 1)
        /\ pc \notin {"trigger", "settle"}
        /\ \A k \in DOMAIN sent : sent[k].to # <<"group">>

\* C11: LampState.apply sends its commands to the group with the fade of the
\* call as their duration, never more than two; a completed apply has sent
\* exactly two: set_power("on") and then set_color for a target that is on,
\* set_color and then set_power("off") for a target that is off.
ApplyOrdersByPower ==
    LET c == applied.cmds IN
    /\ Len(c) <= 2
    /\ \A k \in DOMAIN c :
          c[k].to = <<"group">> /\ c[k].duration = 1000 * applied.fade
    /\ applied.done => Len(c) = 2
    /\ (Len(c) >= 1 /\ applied.state.power) =>
          c[1].op = "set_power" /\ c[1].power = "on"
    /\ (Len(c) >= 1 /\ ~applied.state.power) =>
          c[1].op = "set_color" /\ c[1].color = applied.state.color
    /\ (Len(c) = 2 /\ applied.state.power) =>
          c[2].op = "set_color" /\ c[2].color = applied.state.color
    /\ (Len(c) = 2 /\ ~applied.state.power) =>
          c[2].op = "set_power" /\ c[2].power = "off"

\* C11 witness: the LightsOff state was applied in full after an apply of a
\* state that is on
AppliedOffAfterOn ==
    /\ applied.done
    /\ ~applied.state.power
    /\ Len(fired) >= 2
    /\ fired[1].state.power

\* C12: the Timeline never holds more than the three events of one refill,
\* the refill is started only with the Timeline empty, and the events queued
\* together all come from the same refill.
RefillOf(ev) == (ev.serial - 1) \div 3
OneCycleQueued ==
    /\ Len(timeline) <= 3
    /\ (pc = "refill" => timeline = <<>>)
    /\ \A i, j \in DOMAIN timeline : RefillOf(timeline[i]) = RefillOf(timeline[j])

\* C13: every TimeEvent a refill has inserted is either still queued and was
\* never popped, or was popped exactly once; an event is triggered at most
\* once, only after its pop, and never while it is in the Timeline.
Serials(s) == {s[i].serial : i \in DOMAIN s}
Distinct(s) == \A i, j \in DOMAIN s : s[i].serial = s[j].serial => i = j
EventsConsumedOnce ==
    /\ Distinct(timeline)
    /\ Distinct(popped)
    /\ Distinct(fired)
    /\ Serials(timeline) \cup Serials(popped) = 1 .. made
    /\ Serials(timeline) \cap Serials(popped) = {}
    /\ Serials(fired) \subseteq Serials(popped)
    /\ (pc \in {"trigger", "settle"} => event.serial \notin Serials(timeline))

\* C13 witness: the three events of the first refill were popped and
\* triggered, and the events of the second refill are queued
CycleConsumedNextQueued ==
    /\ Len(fired) = 3
    /\ Len(popped) = 3
    /\ Len(timeline) = 3
    /\ made = 6

\* C14: every call of next_sunset returns, the instant it returns is later
\* than the now it sampled, and it has asked the oracle once when today's
\* sunset (the oracle's, or the 18:00 local default when the request failed)
\* was still ahead of that now, and twice otherwise.
NextSunsetAhead ==
    refill.ran =>
        LET today == IF refill.first # <<>> THEN refill.first[1]
                     ELSE LocalDate(refill.at).day * Day + DEFAULT_SUNSET_TIME - tz
        IN  /\ refill.exc = "none"
            /\ refill.sunset > refill.at
            /\ refill.queries = (IF today > refill.at THEN 1 ELSE 2)

\* C15: no two devices of ctrl_group have the same hardware address, while
\* the group is assembled and ever after.
NoDuplicateDevice ==
    \A i, j \in DOMAIN ctrl_group : ctrl_group[i].mac = ctrl_group[j].mac => i = j

\* C15 witness: the labels are all looked up, and a later label found again,
\* as another object, a device an earlier label had put into the group
RepeatedDeviceSkipped ==
    /\ pc # "labels"
    /\ labels = <<>>
    /\ ctrl_group # <<>>
    /\ \E k \in DOMAIN skipped : \E i \in DOMAIN ctrl_group :
          /\ skipped[k].mac = ctrl_group[i].mac
          /\ skipped[k].lookup < ctrl_group[i].lookup

\* C16: when the labels are all looked up and ctrl_group is empty or holds
\* no light, the process is at the start-up tests or has exited with status
\* 1, and it exits with status 1 in no other case; before the loop is
\* entered nothing is saved, no refill has run and no command has been sent.
NoLight == \A i \in DOMAIN ctrl_group : ~lan[ctrl_group[i].mac]
StartupFailureExits ==
    /\ (labels = <<>> /\ (ctrl_group = <<>> \/ NoLight)) => pc \in {"labels", "exit1"}
    /\ pc = "exit1" => (labels = <<>> /\ (ctrl_group = <<>> \/ NoLight))
    /\ pc \in {"labels", "exit1"} =>
          /\ saved = <<>>
          /\ ~refill.ran
          /\ made = 0
          /\ applied = NoApply
          /\ sent = <<>>
          /\ ri = 0

\* C16 witness: the labels matched a device that is not a light, and the
\* process has exited with status 1
ExitedWithoutLights ==
    /\ pc = "exit1"
    /\ ctrl_group # <<>>
    /\ NoLight

\* C17: events of equal time are queued in the order of their insertion, and
\* a pop that returns an event returns, among the queued events of that
\* time, the one inserted first.
EqualTimesInArrivalOrder ==
    /\ \A i, j \in DOMAIN timeline :
          (i < j /\ timeline[i].time = timeline[j].time) =>
              timeline[i].serial < timeline[j].serial
    /\ signal = "event" =>
          \A k \in DOMAIN popQueue :
              popQueue[k].time = event.time => event.serial <= popQueue[k].serial

\* C17 witness: a pop returned the earlier inserted of two events of one
\* time, both inserted after an event of a later time that is still queued
PoppedFirstOfEqual ==
    /\ signal = "event"
    /\ pc = "idle"
    /\ \E k \in DOMAIN popQueue :
          popQueue[k].time = event.time /\ popQueue[k].serial > event.serial
    /\ \E k \in DOMAIN popQueue :
          popQueue[k].time > event.time /\ popQueue[k].serial < event.serial

\* C18: an exception raised by event.trigger ends the process with that
\* exception: the loop neither refills nor pops again after it.
FaultEndsProcess ==
    faults # <<>> => (pc = "crashed" /\ fault = faults[Len(faults)])

\* C19: when the restore has run to its end, every device of ctrl_group has
\* the power and the color that save_current_states recorded for it at
\* start-up, whatever was triggered in between.
RestoredAsSaved ==
    pc = "exited" =>
        /\ Len(saved) = Len(ctrl_group)
        /\ \A i \in DOMAIN ctrl_group :
              /\ saved[i][1] = ctrl_group[i].mac
              /\ devs[i].power = saved[i][2]
              /\ devs[i].color = saved[i][3]

\* C19 witness: the restore ran to its end after two events were applied in
\* full, and found the last device with both power and color changed
RestoredAfterEvents ==
    /\ pc = "exited"
    /\ Len(fired) >= 2
    /\ applied.done
    /\ current[2] # saved[Len(saved)][2]
    /\ current[3] # saved[Len(saved)][3]

\* C20: in a run without Ctrl-C in which every step that can be taken is
\* taken, the loop at an empty Timeline gets its refill and returns to the
\* pop, and every queued event whose time the clock can reach is triggered.
LoopKeepsServing ==
    /\ (pc = "refill") ~> (pc = "pop" /\ timeline # <<>>)
    /\ \A n \in 1 .. 3 * (MaxTime \div Day) :
          (\E i \in DOMAIN timeline : timeline[i].serial = n /\ timeline[i].time <= MaxTime)
              ~> (n \in Serials(fired))

====
